---- MODULE Spec2Model ----
(***************************************************************************)
(* Veturilo bike-sharing pipeline.                                         *)
(*                                                                         *)
(*   veturilo_helper.py     _bike_station_pairs_virtual,                   *)
(*                          prepare_hourly_rentals,                        *)
(*                          get_hourly_available_bikes                     *)
(*   veturilo_extractor.py  inner_file_wrapper, process_zip,               *)
(*                          process_month, normalize_column_list           *)
(*                                                                         *)
(* Data frames are sequences of records (one record per row, in row       *)
(* order).  A missing value of a numeric column (pandas NaN) is the       *)
(* reserved number NaN, which no uid, bike or count takes; every          *)
(* comparison that may meet it goes through IsNull / Ne, which follow the *)
(* pandas rules (NaN != x is True for every x).                           *)
(***************************************************************************)
EXTENDS Integers, Sequences, FiniteSets, TLC

\* ------------------------------------------------------------------ bounds
\* Largest number of snapshots in one data window.
NumSnapshots == 3
\* Largest number of bike tokens listed in one data window, all stations
\* and snapshots together.
MaxTokens == 3
\* Largest number of daily archives of one month.
NumArchives == 2
\* Largest number of snapshots inside one archive.
MaxMembers == 2
\* Number of times the extractor is run on the same archives.
PipelineRuns == 2
\* Largest number of monthly files in the data directory.
MaxFiles == 2

\* ------------------------------------------------------- generic helpers
NaN == -999999

IsNull(x) == x = NaN

\* pandas  a != b  on one pair of cells: NaN differs from everything.
Ne(a, b) == IF IsNull(a) \/ IsNull(b) THEN TRUE ELSE a # b

RECURSIVE Flatten(_)
Flatten(ss) == IF ss = << >> THEN << >> ELSE Head(ss) \o Flatten(Tail(ss))

RECURSIVE SumSeq(_)
SumSeq(s) == IF s = << >> THEN 0 ELSE Head(s) + SumSeq(Tail(s))

Range(s) == {s[i] : i \in DOMAIN s}

\* First-appearance order of the distinct values of a sequence
\* (pandas Series.unique()).
RECURSIVE Unique(_)
Unique(s) ==
    IF s = << >> THEN << >>
    ELSE LET front == Unique(SubSeq(s, 1, Len(s) - 1))
             last  == s[Len(s)]
         IN  IF last \in Range(front) THEN front ELSE Append(front, last)

Max(S) == CHOOSE x \in S : \A y \in S : y <= x

\* The subsets of 1..N with exactly k elements, each built in increasing
\* order.
RECURSIVE KSub(_, _)
KSub(N, k) ==
    IF k = 0 THEN {{}}
    ELSE UNION {{T \cup {x} : x \in (IF T = {} THEN 1 ELSE Max(T) + 1)..N} :
                    T \in KSub(N, k - 1)}

\* ------------------------------------------------------ the data window
\* Station uids in the order the feed lists them in every snapshot.
StationOrder == <<100, 200>>
Stations == Range(StationOrder)

\* The tokens a bike_numbers cell of the csv may hold, in list order:
\* two bike numbers and one erroneous token.
BikeTokens == <<"7", "8", "?">>

\* The tokens that read as a number.
DigitTokens == {"7", "8"}

MinutesPerHour == 60

\* Observation time of the t-th snapshot, in minutes: ten minutes apart,
\* the first two in one hour, the third in the next.
SnapshotTime(t) == 30 + 10 * t

\* The number of (row, token) slots of a window of n snapshots; slot
\* (p - 1) * Len(BikeTokens) + k stands for token k in the list of row p.
Slots(n) == n * Len(StationOrder) * Len(BikeTokens)

\* The bike list of row p, given the chosen slots.
BikeList(K, p) ==
    LET Pick(k) == IF (p - 1) * Len(BikeTokens) + k \in K
                   THEN <<BikeTokens[k]>> ELSE << >>
    IN  Flatten([k \in 1..Len(BikeTokens) |-> Pick(k)])

\* Line 43: read_csv types the bike_numbers column as float64 when every
\* cell is blank or one plain number, and as strings otherwise.
NumericColumn(n, K) ==
    \A p \in 1..(n * Len(StationOrder)) :
        \/ BikeList(K, p) = << >>
        \/ Len(BikeList(K, p)) = 1 /\ BikeList(K, p)[1] \in DigitTokens

\* Lines 48-62 on a file of n snapshots whose column holds strings: one
\* row per (snapshot, station), snapshot after snapshot, under a
\* RangeIndex; bike_numbers is the list of tokens (an empty list for a
\* null cell).
Frame(n, K) ==
    [p \in 1..(n * Len(StationOrder)) |->
        LET t == ((p - 1) \div Len(StationOrder)) + 1
            s == ((p - 1) % Len(StationOrder)) + 1
            l == BikeList(K, p)
        IN  [index        |-> p - 1,
             uid          |-> StationOrder[s],
             dt           |-> SnapshotTime(t),
             bike_numbers |-> l,
             bikes        |-> Len(l),
             bike_racks   |-> 10 + s]]

\* read_data(fname), lines 24-62: the exception raised ("" when it
\* returns) and the frame returned.  The .str accessor of line 48 raises
\* AttributeError on a float64 column.
read_data(n, K) ==
    IF NumericColumn(n, K)
    THEN [raised |-> "AttributeError", frame |-> << >>]
    ELSE [raised |-> "", frame |-> Frame(n, K)]

\* The choices of a window: its number of snapshots and its listed slots.
Windows ==
    UNION {UNION {{<<n, K>> : K \in KSub(Slots(n), k)} : k \in 0..MaxTokens} :
              n \in 1..NumSnapshots}

\* ------------------------------------------- _bike_station_pairs_virtual
\* The identifier written into the bike_numbers cell of a row whose list
\* is empty: -1 * (the row's index label).
VirtualId(index) == -1 * index

\* The pandas builds the programs may run on: up to 1.1, from 1.2 to 1.5,
\* and from 2.0 on.
PandasBuilds == {"1.1", "1.5", "2.0"}

\* DataFrame.apply on a frame with no row gives a Series of NaN up to
\* pandas 1.1 and raises ValueError from 1.2 on.
ApplyRaises(build) == build # "1.1"

\* df[a_set] selects the columns of the set up to pandas 1.5 and raises
\* TypeError from 2.0 on.
SetIndexerRefused(build) == build = "2.0"

\* Lines 108-111: len_bikes_array, and the virtual identifier in place of
\* every empty list.  The frame is changed in place.  When no list is
\* empty the apply of lines 109-111 runs on a frame with no row: the builds
\* from 1.2 on raise, the older ones leave bike_numbers as they are.
AssignVirtual(df, build) ==
    [raised |-> IF ApplyRaises(build) /\ \A i \in DOMAIN df : Len(df[i].bike_numbers) > 0
                THEN "ValueError" ELSE "",
     frame  |-> [i \in DOMAIN df |->
        [index           |-> df[i].index,
         uid             |-> df[i].uid,
         dt              |-> df[i].dt,
         len_bikes_array |-> Len(df[i].bike_numbers),
         bike_numbers    |-> IF Len(df[i].bike_numbers) = 0
                             THEN VirtualId(df[i].index)
                             ELSE df[i].bike_numbers,
         bikes           |-> df[i].bikes,
         bike_racks      |-> df[i].bike_racks]]]

\* explode("bike_numbers"): a list cell gives one row per element, a scalar
\* cell gives one row.  The bike column holds objects: the text of a token
\* ([text |-> ..]) or a number ([number |-> ..]).
Explode(df) ==
    Flatten([i \in DOMAIN df |->
        IF df[i].len_bikes_array = 0
        THEN <<[uid |-> df[i].uid, dt |-> df[i].dt,
                bike |-> [number |-> df[i].bike_numbers]]>>
        ELSE [k \in 1..Len(df[i].bike_numbers) |->
                [uid |-> df[i].uid, dt |-> df[i].dt,
                 bike |-> [text |-> df[i].bike_numbers[k]]]]])

\* pd.to_numeric(errors="coerce") on one cell: a number stays, a digit
\* string becomes its number, anything else becomes NaN.
to_numeric(x) ==
    IF "number" \in DOMAIN x THEN x.number
    ELSE IF x.text = "7" THEN 7
    ELSE IF x.text = "8" THEN 8
    ELSE NaN

\* Lines 113-121: explode, coerce, drop the rows whose bike is null.
Pairs(df) ==
    LET e == Explode(df)
        c == [i \in DOMAIN e |-> [e[i] EXCEPT !.bike = to_numeric(e[i].bike)]]
    IN  SelectSeq(c, LAMBDA r : ~IsNull(r.bike))

\* Lines 123-128: the product of the distinct timestamps and the distinct
\* positive bikes.
PadDf(pairs) ==
    LET dts   == Unique([i \in DOMAIN pairs |-> pairs[i].dt])
        pos   == SelectSeq(pairs, LAMBDA r : r.bike > 0)
        bikes == Unique([i \in DOMAIN pos |-> pos[i].bike])
    IN  Flatten([i \in DOMAIN dts |->
            [j \in DOMAIN bikes |-> [dt |-> dts[i], bike |-> bikes[j]]]])

Matches(pairs, key) ==
    SelectSeq(pairs, LAMBDA r : r.dt = key.dt /\ r.bike = key.bike)

\* The rows of the merge that carry a key of pad_df: the matching rows of
\* pairs_df, or one row with a null uid where none matches.
LeftJoin(pad, pairs) ==
    Flatten([i \in DOMAIN pad |->
        IF Matches(pairs, pad[i]) = << >>
        THEN <<[uid |-> NaN, dt |-> pad[i].dt, bike |-> pad[i].bike]>>
        ELSE Matches(pairs, pad[i])])

\* The key columns of an empty pad_df are of dtype object, those of
\* pairs_df datetime64 and float64: merge refuses the pair when both
\* frames are empty, and skips the dtype test when one of them is.
MergeRaised(pad, pairs) ==
    IF pad = << >> /\ pairs = << >> THEN "ValueError" ELSE ""

\* how="left" in place of how="outer": the rows of pairs_df with no key in
\* pad_df are lost.
MergeHowLeft(pad, pairs) ==
    [raised |-> MergeRaised(pad, pairs), rows |-> LeftJoin(pad, pairs)]

\* Line 129: pad_df.merge(pairs_df, on=["dt", "bike"], how="outer").
Merge(pad, pairs) ==
    [raised |-> MergeRaised(pad, pairs),
     rows   |-> LeftJoin(pad, pairs)
                \o SelectSeq(pairs,
                     LAMBDA r : [dt |-> r.dt, bike |-> r.bike] \notin Range(pad))]

\* The fill left out: the padded rows keep a null uid.
FillNaSkipped(rows) == rows

\* Line 130: uid.fillna(-1).

FillNa(rows) ==
    [i \in DOMAIN rows |->
        IF IsNull(rows[i].uid) THEN [rows[i] EXCEPT !.uid = -1] ELSE rows[i]]

Before(a, b) == a.bike < b.bike \/ (a.bike = b.bike /\ a.dt < b.dt)

\* The place of r in a sequence sorted by (bike, dt): behind every row
\* that does not come after it (a stable sort).
RECURSIVE Insert(_, _)
Insert(sorted, r) ==
    IF sorted = << >> THEN <<r>>
    ELSE IF Before(r, sorted[Len(sorted)])
         THEN Append(Insert(SubSeq(sorted, 1, Len(sorted) - 1), r),
                     sorted[Len(sorted)])
         ELSE Append(sorted, r)

\* sort_values(["bike", "dt"]).
RECURSIVE SortValues(_)
SortValues(rows) ==
    IF rows = << >> THEN << >>
    ELSE Insert(SortValues(SubSeq(rows, 1, Len(rows) - 1)), rows[Len(rows)])

\* _bike_station_pairs_virtual(df), lines 97-132: the exception raised
\* ("" when it returns), the frame as the call left it, and the grid
\* returned.
bike_station_pairs_virtual(df, build) ==
    LET assigned == AssignVirtual(df, build)
        pairs    == Pairs(assigned.frame)
        merged   == Merge(PadDf(pairs), pairs)
    IN  IF assigned.raised # ""
        THEN [raised |-> assigned.raised, frame |-> assigned.frame, rows |-> << >>]
        ELSE IF merged.raised # ""
        THEN [raised |-> merged.raised, frame |-> assigned.frame, rows |-> << >>]
        ELSE [raised |-> "", frame |-> assigned.frame,
              rows |-> SortValues(FillNa(merged.rows))]

\* ------------------------------------------------- prepare_hourly_rentals
Min(S) == CHOOSE x \in S : \A y \in S : x <= y

\* shift(-1) of the whole uid column, the groups ignored.
PlainShift(rows) ==
    [i \in DOMAIN rows |-> IF i < Len(rows) THEN rows[i + 1].uid ELSE NaN]

\* shift(1) in place of shift(-1): the uid of the previous row of the same
\* bike.
GroupShiftBack(rows) ==
    [i \in DOMAIN rows |->
        LET earlier == {j \in DOMAIN rows : j < i /\ rows[j].bike = rows[i].bike}
        IN  IF earlier = {} THEN NaN
            ELSE rows[CHOOSE j \in earlier : \A k \in earlier : k <= j].uid]

\* Line 153: groupby("bike")["uid"].shift(-1): the uid of the next row of
\* the same bike, null for the bike's last row.
GroupShift(rows) ==
    [i \in DOMAIN rows |->
        LET later == {j \in DOMAIN rows : j > i /\ rows[j].bike = rows[i].bike}
        IN  IF later = {} THEN NaN ELSE rows[Min(later)].uid]

\* Lines 154-158: the rental flag of one row.
Rental(uid, next_uid) ==
    IF Ne(uid, next_uid) /\ ~IsNull(next_uid) /\ Ne(uid, -1) THEN 1 ELSE 0

\* Lines 149-158: the grid with next_uid and rental added.
FlagRentals(grid) ==
    LET kept   == SelectSeq(grid, LAMBDA r : ~IsNull(r.bike))
        sorted == SortValues(kept)
        next   == GroupShift(sorted)
    IN  [i \in DOMAIN sorted |->
            [bike     |-> sorted[i].bike,
             dt       |-> sorted[i].dt,
             uid      |-> sorted[i].uid,
             next_uid |-> next[i],
             rental   |-> Rental(sorted[i].uid, next[i])]]

\* Line 159: dt.floor("H").
FloorHour(dt) == (dt \div MinutesPerHour) * MinutesPerHour

KeyBefore(a, b) == a[1] < b[1] \/ (a[1] = b[1] /\ a[2] < b[2])

RECURSIVE SortedKeys(_)
SortedKeys(S) ==
    IF S = {} THEN << >>
    ELSE LET m == CHOOSE x \in S : \A y \in S \ {x} : KeyBefore(x, y)
         IN  <<m>> \o SortedKeys(S \ {m})

\* The groups of groupby(["dt", "uid"]): the rows with a null key are left
\* out, the groups come sorted by key.
GroupKeys(rows) ==
    SortedKeys({<<FloorHour(rows[i].dt), rows[i].uid>> :
                    i \in {j \in DOMAIN rows : ~IsNull(rows[j].uid)}})

GroupTotal(rows, key) ==
    LET mine == SelectSeq(rows, LAMBDA r : ~IsNull(r.uid)
                                           /\ FloorHour(r.dt) = key[1]
                                           /\ r.uid = key[2])
    IN  SumSeq([i \in DOMAIN mine |-> mine[i].rental])

\* The same grouping with the groups of total zero left out.
GroupBySumSparse(rows) ==
    LET keys == GroupKeys(rows)
        all  == [k \in DOMAIN keys |->
                    [dt |-> keys[k][1], uid |-> keys[k][2],
                     rent_count |-> GroupTotal(rows, keys[k])]]
    IN  SelectSeq(all, LAMBDA g : g.rent_count > 0)

\* Lines 160-165: groupby(["dt", "uid"])["rental"].sum().reset_index().
GroupBySum(rows) ==
    LET keys == GroupKeys(rows)
    IN  [k \in DOMAIN keys |->
            [dt |-> keys[k][1], uid |-> keys[k][2],
             rent_count |-> GroupTotal(rows, keys[k])]]

\* -------------------------------------------------- get_hourly_rentals_df
\* prepare_hourly_rentals(df), lines 135-165: the exception raised ("" when
\* it returns) and the table returned.
prepare_hourly_rentals(frame, build) ==
    LET grid == bike_station_pairs_virtual(frame, build)
    IN  IF grid.raised # ""
        THEN [raised |-> grid.raised, value |-> << >>]
        ELSE [raised |-> "", value |-> GroupBySum(FlagRentals(grid.rows))]

\* Lines 178-180 for one file: read_data, then prepare_hourly_rentals.
MonthlyRentals(file, build) ==
    LET read == read_data(file[1], file[2])
    IN  IF read.raised # ""
        THEN [raised |-> read.raised, value |-> << >>]
        ELSE prepare_hourly_rentals(read.frame, build)

\* The first exception a loop over the files raises, "" when none does.
RECURSIVE FirstRaised(_)
FirstRaised(results) ==
    IF results = << >> THEN ""
    ELSE IF Head(results).raised # "" THEN Head(results).raised
    ELSE FirstRaised(Tail(results))

\* Line 181: pd.concat of the monthly tables, each under the RangeIndex
\* that reset_index gave it.
ConcatRentals(tables) ==
    Flatten([f \in DOMAIN tables |->
                [i \in DOMAIN tables[f] |->
                    [index      |-> i - 1,
                     dt         |-> tables[f][i].dt,
                     uid        |-> tables[f][i].uid,
                     rent_count |-> tables[f][i].rent_count]]])

\* Lines 177-185: how one call of get_hourly_rentals_df ends, given the
\* files list_files() returns and the pickle file: the exception raised
\* ("" when it returns), the table returned and the pickle file afterwards.
\* An exception of read_data or prepare_hourly_rentals leaves the list
\* comprehension; pd.concat raises ValueError on an empty list (line 181),
\* before to_pickle is reached.
get_hourly_rentals_df(recompute, dir, pkl, build) ==
    IF recompute \/ ~pkl.exists
    THEN LET results        == [f \in DOMAIN dir |-> MonthlyRentals(dir[f], build)]
             hourly_rentals == [f \in DOMAIN dir |-> results[f].value]
         IN  IF FirstRaised(results) # ""
             THEN [recomputed |-> TRUE, raised |-> FirstRaised(results),
                   value |-> << >>, pkl |-> pkl]
             ELSE IF hourly_rentals = << >>
             THEN [recomputed |-> TRUE, raised |-> "ValueError", value |-> << >>,
                   pkl |-> pkl]
             ELSE [recomputed |-> TRUE, raised |-> "",
                   value |-> ConcatRentals(hourly_rentals),
                   pkl |-> [exists |-> TRUE, table |-> ConcatRentals(hourly_rentals)]]
    ELSE [recomputed |-> FALSE, raised |-> "", value |-> pkl.table, pkl |-> pkl]

\* The monthly files a data directory may hold, each of two snapshots.
\* In three of them bikes 7 and 8 are docked at the first station, and
\* bike 7 is then listed nowhere, at the same station, or at the second
\* station; in the fourth bike 7 alone is docked at the first station, so
\* that no cell of the file holds more than one plain number.
MonthlyBatches == {<<2, K>> : K \in {{1, 2}, {1, 2, 7}, {1, 2, 10}, {1}}}

\* What list_files() may find: no file, or up to MaxFiles monthly files,
\* in any order.
Directories == UNION {[1..n -> MonthlyBatches] : n \in 0..MaxFiles}

\* --------------------------------------------- get_hourly_available_bikes
\* The names bound in veturilo_helper's module namespace (its imports,
\* constants and functions).
ModuleNames ==
    {"itertools", "os", "re", "pd", "ic", "DATA_DIR", "generate_fname",
     "list_files", "read_data", "bike_station_pairs",
     "_bike_station_pairs_virtual", "prepare_hourly_rentals",
     "get_hourly_rentals_df", "get_hourly_available_bikes"}

\* The attributes of the pandas module the helper uses that exist.
PandasNames ==
    {"read_csv", "to_datetime", "to_numeric", "Series", "DataFrame",
     "concat", "read_pickle"}

\* round(np.mean(x), 0) of a column with the given sum and count: numpy
\* rounds a half to the even neighbour.
RoundMean(sum, count) ==
    LET q == sum \div count
        r == sum % count
    IN  IF 2 * r < count THEN q
        ELSE IF 2 * r > count THEN q + 1
        ELSE IF q % 2 = 0 THEN q ELSE q + 1

\* Lines 200-205: floor dt to the hour, group by (uid, dt), first
\* bike_racks and the rounded mean of bikes.
HourlyAvailable(df) ==
    LET keys == SortedKeys({<<df[i].uid, FloorHour(df[i].dt)>> : i \in DOMAIN df})
    IN  [k \in DOMAIN keys |->
            LET mine == SelectSeq(df, LAMBDA r : r.uid = keys[k][1]
                                                 /\ FloorHour(r.dt) = keys[k][2])
            IN  [uid        |-> keys[k][1],
                 dt         |-> keys[k][2],
                 bike_racks |-> mine[1].bike_racks,
                 bikes      |-> RoundMean(SumSeq([i \in DOMAIN mine |-> mine[i].bikes]),
                                          Len(mine))]]

\* Lines 197-206 for one file: read_data, then the aggregation.  The
\* lambda of line 203 looks up np when agg calls it on the first group.
MonthlyAvailable(file) ==
    LET read == read_data(file[1], file[2])
    IN  IF read.raised # ""
        THEN [raised |-> read.raised, value |-> << >>]
        ELSE IF Len(read.frame) > 0 /\ "np" \notin ModuleNames
        THEN [raised |-> "NameError", value |-> << >>]
        ELSE [raised |-> "", value |-> HourlyAvailable(read.frame)]

\* Lines 195-211: how one call of get_hourly_available_bikes ends, given
\* the monthly files and the pickle file: the exception raised ("" when it
\* returns), the table returned and the pickle file afterwards.  Line 207
\* looks up pd.cponcat.
get_hourly_available_bikes(recompute, files, pkl) ==
    IF recompute \/ ~pkl.exists
    THEN LET results == [f \in DOMAIN files |-> MonthlyAvailable(files[f])]
         IN  IF FirstRaised(results) # ""
             THEN [recomputed |-> TRUE, raised |-> FirstRaised(results),
                   value |-> << >>, pkl |-> pkl]
             ELSE IF "cponcat" \notin PandasNames
             THEN [recomputed |-> TRUE, raised |-> "AttributeError", value |-> << >>,
                   pkl |-> pkl]
             ELSE LET dfs == Flatten([f \in DOMAIN files |-> results[f].value])
                  IN  [recomputed |-> TRUE, raised |-> "", value |-> dfs,
                       pkl |-> [exists |-> TRUE, table |-> dfs]]
    ELSE [recomputed |-> FALSE, raised |-> "", value |-> pkl.table, pkl |-> pkl]


\* ------------------------------------------------------ veturilo_extractor
N_CORES == 6

\* The default expected_cols of normalize_column_list.
expected_cols ==
    <<"uid", "lat", "lng", "name", "number", "bikes", "bike_racks",
      "free_racks", "place_type", "bike_numbers">>

\* The keys of one place of the feed, in the feed's order.
PlaceColumns ==
    <<"uid", "lat", "lng", "name", "spot", "number", "bikes", "bike_racks",
      "free_racks", "terminal_type", "place_type", "bike_numbers">>

\* What the html of one snapshot may be: a page with the places of the
\* region, a page without the NEXTBIKE_PLACES_DB assignment, a page whose
\* json does not hold the region, bytes that are not utf-8.
Contents == {"places", "no_places_db", "no_region", "not_utf8"}

\* The string hash seeds of two interpreter processes.
HashSeeds == {0, 1}

\* CPython's hash of a column name under PYTHONHASHSEED=0 and under
\* PYTHONHASHSEED=1, as an unsigned 64-bit number written in base 32, lowest
\* digit first; the names in the order of PlaceColumns.
HashDigits ==
    [seed \in HashSeeds |->
        IF seed = 0
        THEN << <<0, 5, 19, 27, 6, 4, 5, 6, 3, 17, 8, 5, 14>>,
                <<31, 10, 12, 31, 8, 2, 0, 18, 13, 15, 17, 10, 15>>,
                <<22, 0, 16, 16, 21, 21, 11, 4, 7, 0, 18, 18, 15>>,
                <<6, 29, 19, 17, 20, 22, 4, 24, 4, 28, 31, 17, 10>>,
                <<6, 9, 28, 21, 7, 18, 28, 0, 13, 2, 20, 0, 2>>,
                <<30, 10, 29, 6, 17, 0, 27, 27, 8, 17, 25, 17, 9>>,
                <<6, 1, 20, 22, 8, 14, 3, 17, 4, 10, 14, 24, 15>>,
                <<16, 20, 15, 5, 24, 13, 26, 2, 22, 25, 23, 20, 2>>,
                <<5, 13, 30, 11, 22, 2, 7, 3, 4, 14, 10, 2, 0>>,
                <<6, 4, 2, 14, 24, 0, 28, 5, 27, 9, 7, 26, 14>>,
                <<1, 15, 2, 16, 16, 13, 0, 15, 1, 2, 19, 20, 0>>,
                <<17, 27, 11, 21, 18, 4, 18, 28, 28, 14, 24, 31, 2>> >>
        ELSE << <<10, 3, 4, 15, 24, 7, 13, 12, 26, 23, 21, 12, 13>>,
                <<29, 20, 10, 21, 28, 13, 16, 25, 17, 9, 19, 0, 8>>,
                <<1, 9, 1, 6, 28, 29, 29, 25, 0, 10, 19, 8, 15>>,
                <<13, 20, 17, 9, 11, 10, 29, 22, 21, 25, 22, 14, 0>>,
                <<0, 5, 5, 21, 20, 5, 18, 30, 14, 20, 8, 27, 6>>,
                <<0, 31, 20, 25, 8, 14, 25, 14, 0, 14, 2, 10, 12>>,
                <<1, 2, 13, 9, 19, 25, 16, 26, 21, 24, 25, 20, 3>>,
                <<17, 2, 21, 23, 3, 27, 23, 11, 26, 1, 28, 19, 11>>,
                <<20, 29, 16, 8, 31, 26, 9, 31, 25, 1, 8, 25, 10>>,
                <<30, 19, 9, 19, 19, 16, 6, 8, 1, 10, 4, 31, 15>>,
                <<3, 21, 22, 5, 18, 17, 10, 20, 21, 8, 16, 28, 7>>,
                <<4, 1, 11, 31, 13, 10, 25, 8, 14, 8, 5, 4, 11>> >>]

\* The k-th base-32 digit of the hash of a column name: the low bits of
\* the hash shifted right k times by PERTURB_SHIFT = 5.
Digit(name, seed, k) ==
    LET c      == CHOOSE i \in DOMAIN PlaceColumns : PlaceColumns[i] = name
        digits == HashDigits[seed][c]
    IN  IF k < Len(digits) THEN digits[k + 1] ELSE 0

\* The number of slots a set probes in a row before it jumps.
LINEAR_PROBES == 9

\* The table of a set is a sequence of slots, slot i at position i + 1; an
\* unused slot holds "".  The table of an empty set has 8 slots.
EmptySet == [i \in 1..8 |-> ""]

\* The keys of a set in the order of iteration: the order of the slots.
Items(table) == SelectSeq(table, LAMBDA e : e # "")

\* The slot of the key, or the unused slot the key goes to: the probe
\* starts at hash & mask, looks at up to LINEAR_PROBES further slots when
\* they lie inside the table, then moves to (i * 5 + 1 + perturb) & mask.
RECURSIVE FindSlot(_, _, _, _, _)
FindSlot(table, key, seed, i, k) ==
    LET probes == IF i + LINEAR_PROBES <= Len(table) - 1 THEN LINEAR_PROBES ELSE 0
        hits   == {j \in i..(i + probes) : table[j + 1] \in {"", key}}
    IN  IF hits # {} THEN Min(hits)
        ELSE FindSlot(table, key, seed,
                      (i * 5 + 1 + Digit(key, seed, k + 1)) % Len(table), k + 1)

\* The table with the key in its slot.
Place(table, key, seed) ==
    [table EXCEPT ![FindSlot(table, key, seed,
                             Digit(key, seed, 0) % Len(table), 0) + 1] = key]

RECURSIVE PlaceAll(_, _, _)
PlaceAll(table, keys, seed) ==
    IF keys = << >> THEN table
    ELSE PlaceAll(Place(table, Head(keys), seed), Tail(keys), seed)

\* The smallest power of two, from the given size on, above minused.
RECURSIVE NewSize(_, _)
NewSize(size, minused) ==
    IF size <= minused THEN NewSize(2 * size, minused) ELSE size

\* A new table of the size for minused keys, the keys of the old one put
\* in, slot after slot.
set_table_resize(table, minused, seed) ==
    PlaceAll([i \in 1..NewSize(Len(EmptySet), minused) |-> ""], Items(table), seed)

\* set.add: the key goes to its slot; the table is rebuilt for four times
\* its keys once three fifths of the slots are in use.
set_add(table, key, seed) ==
    LET placed == Place(table, key, seed)
    IN  IF Len(Items(placed)) * 5 < (Len(table) - 1) * 3 THEN placed
        ELSE set_table_resize(placed, Len(Items(placed)) * 4, seed)

\* set(a_list): the elements added one after the other.
RECURSIVE AddAll(_, _, _)
AddAll(table, keys, seed) ==
    IF keys = << >> THEN table
    ELSE AddAll(set_add(table, Head(keys), seed), Tail(keys), seed)

\* so.intersection(other): the keys of the smaller set (of other when the
\* two are of one size) that the larger one holds, added to a new set in
\* the order of iteration.
set_intersection(so, other, seed) ==
    LET swap  == Len(Items(other)) > Len(Items(so))
        large == IF swap THEN other ELSE so
        small == IF swap THEN so ELSE other
    IN  AddAll(EmptySet,
               SelectSeq(Items(small), LAMBDA key : key \in Range(large)), seed)

\* Lines 39-59: the timestamp fields sliced out of an inner file name
\* YYYYMMDD_hhmmss, the name given as <<YYYYMMDD, hhmmss>>.
extract_timestamp(inner_fname) ==
    <<inner_fname[1] \div 10000, (inner_fname[1] \div 100) % 100,
      inner_fname[1] % 100, inner_fname[2] \div 10000,
      (inner_fname[2] \div 100) % 100, inner_fname[2] % 100>>

\* Lines 195-199: the exception raised ("" when it returns) and the frame
\* returned, whose columns are the columns of df that are expected, in the
\* iteration order of the set existing_cols.
normalize_column_list(df, seed, build) ==
    LET existing_cols == set_intersection(AddAll(EmptySet, df.columns, seed),
                                          AddAll(EmptySet, expected_cols, seed),
                                          seed)
    IN  IF Len(expected_cols) = 0 THEN [raised |-> "", df |-> df]
        ELSE IF SetIndexerRefused(build) THEN [raised |-> "TypeError", df |-> df]
        ELSE [raised |-> "", df |-> [df EXCEPT !.columns = Items(existing_cols)]]

\* Lines 212-216: one row per place of the region.
process_json(inner_fname) ==
    [columns |-> PlaceColumns,
     rows    |-> [s \in DOMAIN StationOrder |->
                    [uid |-> StationOrder[s], src |-> inner_fname]]]

\* Lines 142-144: the tuple of a snapshot whose json was processed, dt
\* added to the normalized frame.
Timestamped(normalized, fname) ==
    LET df == normalized.df
        dt == extract_timestamp(fname)
    IN  IF normalized.raised # ""
        THEN [raised |-> normalized.raised, tpl |-> << >>]
        ELSE [raised |-> "",
              tpl |-> <<TRUE, fname, "None", "None",
                        [columns |-> Append(df.columns, "dt"),
                         rows |-> [i \in DOMAIN df.rows |->
                                     [uid |-> df.rows[i].uid,
                                      src |-> df.rows[i].src,
                                      dt  |-> dt]]]>>]

\* Lines 131-144.  raised: the exception that leaves the function ("" when
\* it returns); tpl: the tuple returned.  An extract_json failure returns
\* four fields, the other two returns five.  normalize_column_list is
\* called outside the try blocks.
inner_file_wrapper(member, seed, build) ==
    IF member.content = "not_utf8"
    THEN [raised |-> "UnicodeDecodeError", tpl |-> << >>]
    ELSE IF member.content = "no_places_db"
    THEN [raised |-> "",
          tpl |-> <<FALSE, member.fname, "extract_json", "IndexError">>]
    ELSE IF member.content = "no_region"
    THEN [raised |-> "",
          tpl |-> <<FALSE, member.fname, "process_json", "IndexError", "None">>]
    ELSE \* line 142 is evaluated once and its value handed on
         CHOOSE tpl \in {Timestamped(normalized, member.fname) :
                             normalized \in {normalize_column_list(
                                                process_json(member.fname),
                                                seed, build)}} : TRUE

\* The columns of pd.concat(frames): the union, in order of first
\* appearance.
ConcatColumns(frames) ==
    Unique(Flatten([i \in DOMAIN frames |-> frames[i].columns]))

\* pd.concat(frames), which raises ValueError when there is no frame.
Concat(frames) ==
    IF frames = << >>
    THEN [raised |-> "ValueError", columns |-> << >>, rows |-> << >>]
    ELSE [raised  |-> "",
          columns |-> ConcatColumns(frames),
          rows    |-> Flatten([i \in DOMAIN frames |-> frames[i].rows])]

\* Lines 163-168: what process_zip makes of the results of its inner
\* files.  An exception of inner_file_wrapper leaves process_zip; pd.concat
\* raises ValueError when no inner file succeeded.
Collected(dfs_list) ==
    LET failed   == SelectSeq(dfs_list, LAMBDA r : r.raised # "")
        tuples   == [m \in DOMAIN dfs_list |-> dfs_list[m].tpl]
        bad      == SelectSeq(tuples, LAMBDA t : ~t[1])
        good     == SelectSeq(tuples, LAMBDA t : t[1])
        log      == [i \in DOMAIN bad |-> SubSeq(bad[i], 2, 4)]
        output   == Concat([i \in DOMAIN good |-> good[i][5]])
    IN  IF failed # << >>
        THEN [raised |-> failed[1].raised, data |-> Concat(<< >>), log |-> << >>]
        ELSE IF output.raised # ""
        THEN [raised |-> output.raised, data |-> output, log |-> << >>]
        ELSE [raised |-> "", data |-> output, log |-> log]

\* Line 162: inner_file_wrapper on the inner files of the archive, one
\* after the other.
RECURSIVE InnerFiles(_, _, _, _)
InnerFiles(members, done, seed, build) ==
    IF members = << >> THEN done
    ELSE InnerFiles(Tail(members),
                    Append(done, inner_file_wrapper(Head(members), seed, build)),
                    seed, build)

\* Lines 161-168.  An archive that cannot be opened raises in ZipFile; an
\* exception of inner_file_wrapper leaves the list comprehension.
process_zip(archive, seed, build) ==
    IF ~archive.readable
    THEN [raised |-> "BadZipFile", data |-> Concat(<< >>), log |-> << >>]
    ELSE \* line 162 is evaluated once and its value handed on
         CHOOSE out \in {Collected(dfs_list) :
                             dfs_list \in {InnerFiles(archive.members, << >>,
                                                      seed, build)}} : TRUE

\* The archives of archive number a with the given member contents.
Archive(a, readable, contents) ==
    [fname    |-> 20190800 + a,
     readable |-> readable,
     members  |-> [k \in DOMAIN contents |->
                     [fname   |-> <<20190800 + a, 100000 + 1000 * k>>,
                      content |-> contents[k]]]]

\* An archive holds at least one snapshot.
ContentLists == UNION {[1..k -> Contents] : k \in 1..MaxMembers}

\* The orders in which os.listdir may give n archives.
ListDirOrders(n) ==
    {p \in [1..n -> 1..n] : \A i \in 1..n : \A j \in 1..n : i # j => p[i] # p[j]}

\* The months of n archives, in the order of os.listdir.
Months(n) ==
    {[a \in 1..n |-> Archive(p[a], rc[p[a]][1], rc[p[a]][2])] :
        rc \in [1..n -> (BOOLEAN \X ContentLists)], p \in ListDirOrders(n)}

\* ------------------------------------------------------------ the state
VARIABLES
    data,       \* the monthly frame as read_data returned it
    df,         \* the frame handed to prepare_hourly_rentals (changed in place)
    grid,       \* what _bike_station_pairs_virtual returned
    pairs_df,   \* prepare_hourly_rentals' pairs_df with next_uid and rental
    hourly,     \* what prepare_hourly_rentals returned
    avail_pkl,  \* the file hourly_available_bikes.pkl
    avail,      \* how the call of get_hourly_available_bikes ended
    raised,     \* the exception that ended the pipeline, "" when none did
    pandas,     \* the pandas build that is installed
    pc,
    data_dir,   \* the monthly files of DATA_DIR, in the order of os.listdir
    rentals_pkl,\* the file hourly_rentals.pkl
    rentals,    \* the last call of get_hourly_rentals_df and how it ended
    changed,    \* whether DATA_DIR changed since that call
    files,      \* the archives of the month, in the order of os.listdir
    tasks,      \* process_month: the state of every delayed process_zip call
    pm_pc,      \* process_month: "idle", or "parallel" inside Parallel(...)
    outputs     \* what every finished run of process_month left behind

vars == <<data, df, grid, pairs_df, hourly, avail_pkl, avail, raised, pandas, pc,
          data_dir, rentals_pkl, rentals, changed,
          files, tasks, pm_pc, outputs>>

cache_vars == <<data_dir, rentals_pkl, rentals, changed>>

helper_vars == <<data, df, grid, pairs_df, hourly, avail_pkl, avail, raised, pc>>

extractor_vars == <<files, tasks, pm_pc, outputs>>

\* No call of get_hourly_rentals_df yet, no pickle file, no monthly file.
NoCall ==
    [called |-> FALSE, recompute |-> FALSE, dir |-> << >>,
     before |-> [exists |-> FALSE, table |-> << >>],
     follows |-> FALSE, prior |-> << >>,
     recomputed |-> FALSE, raised |-> "", value |-> << >>]

CacheIdle ==
    /\ data_dir = << >>
    /\ rentals_pkl = [exists |-> FALSE, table |-> << >>]
    /\ rentals = NoCall
    /\ changed = FALSE

\* The extractor at rest, with no archive.
ExtractorIdle ==
    /\ files = << >>
    /\ tasks = << >>
    /\ pm_pc = "idle"
    /\ outputs = << >>

\* What prepare_hourly_rentals is called on: a frame with list cells, as
\* line 48 of read_data makes them.
Init ==
    /\ \E w \in Windows : data = Frame(w[1], w[2])
    /\ df = data
    /\ grid = << >>
    /\ pairs_df = << >>
    /\ hourly = << >>
    /\ avail_pkl = [exists |-> FALSE, table |-> << >>]
    /\ avail = [recomputed |-> FALSE, raised |-> "", value |-> << >>, pkl |-> avail_pkl]
    /\ raised = ""
    /\ pandas \in PandasBuilds
    /\ pc = "read"
    /\ ExtractorIdle
    /\ CacheIdle

\* prepare_hourly_rentals(df), lines 135-165.  df is the caller's frame,
\* changed in place by lines 108-111 even when the call raises.
PrepareHourlyRentals ==
    /\ pc = "read"
    /\ \E pairs \in {bike_station_pairs_virtual(df, pandas)} :
          /\ df' = pairs.frame
          /\ grid' = pairs.rows
          /\ pairs_df' = IF pairs.raised = "" THEN FlagRentals(grid') ELSE << >>
          /\ hourly' = IF pairs.raised = "" THEN GroupBySum(pairs_df') ELSE << >>
          /\ raised' = pairs.raised
          /\ pc' = IF pairs.raised = "" THEN "rentals" ELSE "raised"
    /\ UNCHANGED <<data, avail_pkl, avail>>
    /\ UNCHANGED extractor_vars
    /\ UNCHANGED cache_vars
    /\ UNCHANGED pandas

\* get_hourly_available_bikes(recompute), lines 188-211, on the files of
\* DATA_DIR.
GetHourlyAvailableBikes(recompute) ==
    /\ pc = "file"
    /\ avail' = get_hourly_available_bikes(recompute, data_dir, avail_pkl)
    /\ avail_pkl' = avail'.pkl
    /\ raised' = avail'.raised
    /\ pc' = "available"
    /\ UNCHANGED <<data, df, grid, pairs_df, hourly>>
    /\ UNCHANGED extractor_vars
    /\ UNCHANGED cache_vars
    /\ UNCHANGED pandas

Next == PrepareHourlyRentals

\* The rental pipeline applied to every frame.
Spec == Init /\ [][Next]_vars

\* The availability aggregator called on every monthly file, with and
\* without a pickle file in place.
InitAvailable ==
    /\ \E w \in Windows : data_dir = <<w>>
    /\ data = << >>
    /\ df = << >>
    /\ grid = << >>
    /\ pairs_df = << >>
    /\ hourly = << >>
    /\ avail_pkl \in {[exists |-> e, table |-> << >>] : e \in BOOLEAN}
    /\ avail = [recomputed |-> FALSE, raised |-> "", value |-> << >>, pkl |-> avail_pkl]
    /\ raised = ""
    /\ pandas \in PandasBuilds
    /\ pc = "file"
    /\ rentals_pkl = [exists |-> FALSE, table |-> << >>]
    /\ rentals = NoCall
    /\ changed = FALSE
    /\ ExtractorIdle

NextAvailable == \E recompute \in BOOLEAN : GetHourlyAvailableBikes(recompute)

SpecAvailable == InitAvailable /\ [][NextAvailable]_vars

\* ---------------------------------------------------- the rentals cache
\* get_hourly_rentals_df called again and again, with and without
\* recompute, while the monthly files of DATA_DIR come and go.
InitRentals ==
    /\ data = << >>
    /\ df = << >>
    /\ grid = << >>
    /\ pairs_df = << >>
    /\ hourly = << >>
    /\ avail_pkl = [exists |-> FALSE, table |-> << >>]
    /\ avail = [recomputed |-> FALSE, raised |-> "", value |-> << >>, pkl |-> avail_pkl]
    /\ raised = ""
    /\ pandas \in PandasBuilds
    /\ pc = "none"
    /\ ExtractorIdle
    /\ data_dir \in Directories
    /\ rentals_pkl = [exists |-> FALSE, table |-> << >>]
    /\ rentals = NoCall
    /\ changed = FALSE

\* get_hourly_rentals_df(recompute), lines 168-185.  The record keeps the
\* argument, the files and the pickle file the call found, and, when the
\* step before was a call that recomputed and returned, the table it
\* returned.
GetHourlyRentalsDf(recompute) ==
    LET out    == get_hourly_rentals_df(recompute, data_dir, rentals_pkl, pandas)
        follow == rentals.called /\ ~changed /\ rentals.recomputed
                  /\ rentals.raised = ""
    IN  /\ rentals' = [called |-> TRUE, recompute |-> recompute,
                       dir |-> data_dir, before |-> rentals_pkl,
                       follows |-> follow,
                       prior |-> IF follow THEN rentals.value ELSE << >>,
                       recomputed |-> out.recomputed, raised |-> out.raised,
                       value |-> out.value]
        /\ rentals_pkl' = out.pkl
        /\ changed' = FALSE
        /\ UNCHANGED data_dir
        /\ UNCHANGED helper_vars
        /\ UNCHANGED extractor_vars
        /\ UNCHANGED pandas

\* A monthly file is added to DATA_DIR between two calls.  os.listdir
\* gives the files in no particular order (list_files does not sort), so
\* the new file is listed after any number `at` of the files there were.
AddFile(batch, at) ==
    /\ Len(data_dir) < MaxFiles
    /\ at \in 0..Len(data_dir)
    /\ data_dir' = SubSeq(data_dir, 1, at) \o <<batch>>
                      \o SubSeq(data_dir, at + 1, Len(data_dir))
    /\ changed' = TRUE
    /\ UNCHANGED <<rentals_pkl, rentals>>
    /\ UNCHANGED helper_vars
    /\ UNCHANGED extractor_vars
    /\ UNCHANGED pandas

\* A monthly file, the one listed at position `at`, is removed from
\* DATA_DIR between two calls.
RemoveFile(at) ==
    /\ at \in DOMAIN data_dir
    /\ data_dir' = SubSeq(data_dir, 1, at - 1)
                      \o SubSeq(data_dir, at + 1, Len(data_dir))
    /\ changed' = TRUE
    /\ UNCHANGED <<rentals_pkl, rentals>>
    /\ UNCHANGED helper_vars
    /\ UNCHANGED extractor_vars
    /\ UNCHANGED pandas

NextRentals ==
    \/ \E recompute \in BOOLEAN : GetHourlyRentalsDf(recompute)
    \/ \E batch \in MonthlyBatches : \E at \in 0..MaxFiles : AddFile(batch, at)
    \/ \E at \in 1..MaxFiles : RemoveFile(at)

SpecRentals == InitRentals /\ [][NextRentals]_vars

\* ----------------------------------------------------------- process_month
InitExtractor ==
    /\ data = << >>
    /\ df = << >>
    /\ grid = << >>
    /\ pairs_df = << >>
    /\ hourly = << >>
    /\ avail_pkl = [exists |-> FALSE, table |-> << >>]
    /\ avail = [recomputed |-> FALSE, raised |-> "", value |-> << >>, pkl |-> avail_pkl]
    /\ raised = ""
    /\ pandas \in PandasBuilds
    /\ pc = "none"
    /\ \E n \in 1..NumArchives : files \in Months(n)
    /\ tasks = [f \in DOMAIN files |-> [state |-> "pending"]]
    /\ pm_pc = "idle"
    /\ outputs = << >>
    /\ CacheIdle

\* Lines 85-90: process_month lists the archives and hands one delayed
\* process_zip call per archive to Parallel(N_CORES).
ProcessMonth ==
    /\ pm_pc = "idle"
    /\ Len(outputs) < PipelineRuns
    /\ tasks' = [f \in DOMAIN files |-> [state |-> "pending"]]
    /\ pm_pc' = "parallel"
    /\ UNCHANGED <<files, outputs>>
    /\ UNCHANGED helper_vars
    /\ UNCHANGED cache_vars
    /\ UNCHANGED pandas

Running == {f \in DOMAIN tasks : tasks[f].state = "running"}

\* A worker process, whose string hash seed is its own, takes the next call
\* that was not handed out yet.
WorkerStart(f, seed) ==
    /\ pm_pc = "parallel"
    /\ tasks[f].state = "pending"
    /\ \A g \in DOMAIN tasks : g < f => tasks[g].state # "pending"
    /\ Cardinality(Running) < N_CORES
    /\ tasks' = [tasks EXCEPT ![f] = [state |-> "running", seed |-> seed]]
    /\ UNCHANGED <<files, pm_pc, outputs>>
    /\ UNCHANGED helper_vars
    /\ UNCHANGED cache_vars
    /\ UNCHANGED pandas

\* The worker's process_zip call ends: it returns, or it raises.
WorkerFinish(f) ==
    /\ pm_pc = "parallel"
    /\ tasks[f].state = "running"
    /\ \E res \in {process_zip(files[f], tasks[f].seed, pandas)} :
          tasks' = [tasks EXCEPT ![f] =
                       [state |-> IF res.raised = "" THEN "returned" ELSE "raised",
                        result |-> res]]
    /\ UNCHANGED <<files, pm_pc, outputs>>
    /\ UNCHANGED helper_vars
    /\ UNCHANGED cache_vars
    /\ UNCHANGED pandas

\* Lines 92-99: every call has returned; the results are concatenated in
\* the order of the archives and written.
Join ==
    /\ pm_pc = "parallel"
    /\ \A f \in DOMAIN tasks : tasks[f].state = "returned"
    /\ LET data_df == Concat([f \in DOMAIN tasks |->
                                [columns |-> tasks[f].result.data.columns,
                                 rows    |-> tasks[f].result.data.rows]])
           processing_log == Flatten([f \in DOMAIN tasks |-> tasks[f].result.log])
       IN  outputs' = Append(outputs,
                             [raised |-> "",
                              data_df |-> [columns |-> data_df.columns,
                                           rows |-> data_df.rows],
                              processing_log |-> processing_log])
    /\ pm_pc' = "idle"
    /\ UNCHANGED <<files, tasks>>
    /\ UNCHANGED helper_vars
    /\ UNCHANGED cache_vars
    /\ UNCHANGED pandas

\* Line 90: a call raised; Parallel gives up the batch and raises the
\* exception in process_month, which writes nothing.
Abort(f) ==
    /\ pm_pc = "parallel"
    /\ tasks[f].state = "raised"
    /\ outputs' = Append(outputs,
                          [raised |-> tasks[f].result.raised,
                           data_df |-> [columns |-> << >>, rows |-> << >>],
                           processing_log |-> << >>])
    /\ pm_pc' = "idle"
    /\ UNCHANGED <<files, tasks>>
    /\ UNCHANGED helper_vars
    /\ UNCHANGED cache_vars
    /\ UNCHANGED pandas

NextExtractor ==
    \/ ProcessMonth
    \/ \E f \in DOMAIN files : \E seed \in HashSeeds : WorkerStart(f, seed)
    \/ \E f \in DOMAIN files : WorkerFinish(f)
    \/ Join
    \/ \E f \in DOMAIN files : Abort(f)

SpecExtractor == InitExtractor /\ [][NextExtractor]_vars

\* ---------------------------------------------- the window, read directly
\* The numbers of the bikes the window lists.
RealBikes ==
    {to_numeric([text |-> BikeTokens[k]]) : k \in DOMAIN BikeTokens} \ {NaN}

\* The rows of the window that list bike b at time T.
RowsListing(b, T) ==
    {i \in DOMAIN data :
        /\ data[i].dt = T
        /\ \E k \in DOMAIN data[i].bike_numbers :
              to_numeric([text |-> data[i].bike_numbers[k]]) = b}

ListedAt(b, T) == {data[i].uid : i \in RowsListing(b, T)}

\* No bike is listed at two stations in the same snapshot.
NoDuplicateListing ==
    \A b \in RealBikes : \A i \in DOMAIN data :
        Cardinality(RowsListing(b, data[i].dt)) <= 1

\* The station holding b at T, the sentinel -1 when no station lists it.
StationOf(b, T) ==
    IF ListedAt(b, T) = {} THEN -1 ELSE CHOOSE u \in ListedAt(b, T) : TRUE

WindowTimes == {data[i].dt : i \in DOMAIN data}

\* The rows with an empty bike list.
EmptyRows == {i \in DOMAIN data : data[i].bike_numbers = << >>}

\* The timestamps that keep a row once the non-numeric tokens are dropped.
ObservedTimes ==
    {T \in WindowTimes :
        \E i \in DOMAIN data :
            /\ data[i].dt = T
            /\ \/ i \in EmptyRows
               \/ \E b \in RealBikes : i \in RowsListing(b, T)}

\* The bikes listed somewhere in the window.
ListedBikes == {b \in RealBikes : \E T \in WindowTimes : ListedAt(b, T) # {}}

HasNext(T) == \E T2 \in ObservedTimes : T2 > T

NextTime(T) == Min({T2 \in ObservedTimes : T2 > T})

\* The (bike, time) pairs at which a bike leaves station A within hour h:
\* it is at A at T and somewhere else, or nowhere, at the next timestamp.
Departures(A, h) ==
    {<<b, T>> \in ListedBikes \X ObservedTimes :
        /\ FloorHour(T) = h
        /\ StationOf(b, T) = A
        /\ HasNext(T)
        /\ StationOf(b, NextTime(T)) # A}

\* Bike b is at genuine station A at T and at genuine station B # A at the
\* next snapshot of the window, ten minutes later.
Moves(b, T, A, B) ==
    /\ T \in WindowTimes /\ T + 10 \in WindowTimes
    /\ A \in Stations /\ B \in Stations /\ A # B
    /\ ListedAt(b, T) = {A}
    /\ ListedAt(b, T + 10) = {B}

\* Bike b is at genuine station A at T and at no station at the next
\* snapshot of the window, where the grid pads it with the sentinel.
Vanishes(b, T, A) ==
    /\ T \in WindowTimes /\ T + 10 \in ObservedTimes
    /\ A \in Stations
    /\ ListedAt(b, T) = {A}
    /\ ListedAt(b, T + 10) = {}

FlaggedRows(b, T) ==
    {i \in DOMAIN pairs_df : pairs_df[i].bike = b /\ pairs_df[i].dt = T
                              /\ pairs_df[i].rental = 1}

HourlyRows(h, u) == {k \in DOMAIN hourly : hourly[k].dt = h /\ hourly[k].uid = u}

\* ------------------------------------------------------------------ C1
\* C1: in the table prepare_hourly_rentals returns for a window where no
\* bike is listed at two stations in one snapshot, a move of a bike from genuine station A at T1 to a different genuine
\* station B at the next snapshot is flagged on exactly one row, the row
\* (bike, T1, A); the output row (A, floor(T1)) exists and every output row
\* of a station holds exactly the number of departures from that station in
\* that hour, so the move adds nothing to a row of B or to a later hour.
C1_MoveCountedOnce ==
    (pc = "rentals" /\ NoDuplicateListing) =>
        \A b \in RealBikes : \A T \in WindowTimes : \A A \in Stations : \A B \in Stations :
            Moves(b, T, A, B) =>
                /\ Cardinality(FlaggedRows(b, T)) = 1
                /\ \A i \in FlaggedRows(b, T) : pairs_df[i].uid = A
                /\ Cardinality(HourlyRows(FloorHour(T), A)) = 1
                /\ \A k \in DOMAIN hourly :
                      hourly[k].uid \in Stations =>
                        hourly[k].rent_count =
                            Cardinality(Departures(hourly[k].uid, hourly[k].dt))

C1_Witness ==
    /\ pc = "rentals"
    /\ NoDuplicateListing
    /\ \E b \in RealBikes : \E T \in WindowTimes :
          /\ Moves(b, T, 100, 200)
          /\ FloorHour(T + 10) > FloorHour(T)
          /\ \E k \in HourlyRows(FloorHour(T), 100) : hourly[k].rent_count = 1

\* ------------------------------------------------------------------ C2
\* C2 as stated: a bike at genuine station A at T1 and at no station at the
\* next snapshot T2 (padded with uid -1) is not flagged at T1.
C2_VanishNotFlagged ==
    pc = "rentals" =>
        \A b \in RealBikes : \A T \in WindowTimes : \A A \in Stations :
            Vanishes(b, T, A) => FlaggedRows(b, T) = {}

\* C2 amended: in every call that returns, a bike listed at genuine station
\* A (and at no other station) at T1 and at no station at the next snapshot
\* T2 is flagged as a rental at T1: its row (bike, T1, A) has rental = 1 and next_uid = -1, and the
\* output row (A, floor(T1)) exists with rent_count >= 1.
C2_VanishFlagged ==
    pc = "rentals" =>
        \A b \in RealBikes : \A T \in WindowTimes : \A A \in Stations :
            Vanishes(b, T, A) =>
                /\ Cardinality(FlaggedRows(b, T)) = 1
                /\ \A i \in FlaggedRows(b, T) :
                      pairs_df[i].uid = A /\ pairs_df[i].next_uid = -1
                /\ \E k \in HourlyRows(FloorHour(T), A) : hourly[k].rent_count >= 1

C2_Witness ==
    /\ pc = "rentals"
    /\ \E b \in RealBikes : \E T \in WindowTimes : \E A \in Stations :
          Vanishes(b, T, A) /\ FlaggedRows(b, T) # {}

\* ------------------------------------------------------------------ C3
\* Row i of the sorted grid has a next chronological row of the same bike.
HasSuccessor(i) == i < Len(grid) /\ grid[i + 1].bike = grid[i].bike

\* C3: the rows of pairs_df are the rows of the grid, sorted by (bike, dt),
\* and a row is flagged if and only if its station is not the sentinel -1,
\* it has a next row of the same bike (its next station is not null), and
\* that row's station differs from its own.
C3_FlagIffRule ==
    pc = "rentals" =>
        /\ Len(pairs_df) = Len(grid)
        /\ \A i \in DOMAIN grid :
              /\ pairs_df[i].bike = grid[i].bike
              /\ pairs_df[i].dt = grid[i].dt
              /\ pairs_df[i].uid = grid[i].uid
              /\ i < Len(grid) => ~Before(grid[i + 1], grid[i])
              /\ pairs_df[i].rental = 1 <=>
                    /\ grid[i].uid # -1
                    /\ HasSuccessor(i)
                    /\ grid[i + 1].uid # grid[i].uid

C3_Witness ==
    /\ pc = "rentals"
    /\ \E i \in DOMAIN grid : HasSuccessor(i) /\ pairs_df[i].rental = 1
    /\ \E i \in DOMAIN grid :
          HasSuccessor(i) /\ grid[i].uid \in Stations
          /\ grid[i + 1].uid = grid[i].uid /\ pairs_df[i].rental = 0
    /\ \E i \in DOMAIN grid :
          ~HasSuccessor(i) /\ i < Len(grid) /\ grid[i].uid \in Stations
          /\ grid[i + 1].uid # grid[i].uid /\ pairs_df[i].rental = 0

\* ------------------------------------------------------------------ C4
\* The window of two snapshots in one hour in which station 100 holds bike
\* 7 and station 200 is empty, then station 100 is empty and station 200
\* holds bike 7.
Scenario ==
    /\ Len(data) = 4
    /\ data[1].uid = 100 /\ data[1].bike_numbers = <<"7">>
    /\ data[2].uid = 200 /\ data[2].bike_numbers = << >>
    /\ data[3].uid = 100 /\ data[3].bike_numbers = << >>
    /\ data[4].uid = 200 /\ data[4].bike_numbers = <<"7">>
    /\ FloorHour(data[1].dt) = FloorHour(data[3].dt)

\* C4 as stated: every output row has rent_count >= 1, and the scenario's
\* output is the single row (100, hour, 1).
C4_SparseOutput ==
    pc = "rentals" =>
        /\ \A k \in DOMAIN hourly : hourly[k].rent_count >= 1
        /\ Scenario =>
              hourly = <<[dt |-> FloorHour(data[1].dt), uid |-> 100, rent_count |-> 1]>>

\* C4 amended: the table returned has exactly one row for every (hour, uid) that
\* some grid row falls in (a docked bike, the virtual bike of an empty
\* station, or a padded row with uid -1), its rent_count is the number of
\* flagged rows of the group and may be 0; the scenario's output is the two
\* rows (100, hour, 1) and (200, hour, 0).
C4_DenseOutput ==
    pc = "rentals" =>
        /\ \A i \in DOMAIN grid :
              Cardinality(HourlyRows(FloorHour(grid[i].dt), grid[i].uid)) = 1
        /\ \A k \in DOMAIN hourly :
              /\ \E i \in DOMAIN grid :
                    FloorHour(grid[i].dt) = hourly[k].dt /\ grid[i].uid = hourly[k].uid
              /\ hourly[k].rent_count >= 0
              /\ hourly[k].rent_count =
                    Cardinality({i \in DOMAIN pairs_df :
                                    /\ FloorHour(pairs_df[i].dt) = hourly[k].dt
                                    /\ pairs_df[i].uid = hourly[k].uid
                                    /\ pairs_df[i].rental = 1})
        /\ Scenario =>
              hourly = <<[dt |-> FloorHour(data[1].dt), uid |-> 100, rent_count |-> 1],
                         [dt |-> FloorHour(data[1].dt), uid |-> 200, rent_count |-> 0]>>

C4_Witness ==
    /\ pc = "rentals"
    /\ Scenario
    /\ \E k \in DOMAIN hourly : hourly[k].uid = 200 /\ hourly[k].rent_count = 0

\* ------------------------------------------------------------------ C5
\* The positive bikes of the grid.
PositiveBikes == {grid[i].bike : i \in {j \in DOMAIN grid : grid[j].bike > 0}}

\* C5 as stated: the grid has (distinct positive bikes) x (distinct
\* timestamps of the window) rows.
C5_GridIsProduct ==
    pc = "rentals" =>
        Len(grid) = Cardinality(ListedBikes) * Cardinality(WindowTimes)

\* The call of prepare_hourly_rentals raised inside
\* _bike_station_pairs_virtual.
PairsRaised == pc = "raised" /\ raised = "ValueError"

\* C5 amended: _bike_station_pairs_virtual returns a grid for every window
\* in which some station record has an empty bike list; it can raise
\* ValueError only on a window with no such record, and always does when
\* that window lists no numeric bike either.  When it returns and no bike
\* is listed at two stations in one snapshot, the grid has (distinct
\* positive bikes) x (distinct timestamps that keep a row after the
\* non-numeric tokens are dropped) rows, one for every such (bike,
\* timestamp) pair, plus one row for every station record with an empty bike
\* list, which carries that record's virtual identifier.
C5_GridIsProductPlusVirtual ==
    /\ PairsRaised => EmptyRows = {}
    /\ pc = "rentals" => (EmptyRows # {} \/ ListedBikes # {})
    /\ (pc = "rentals" /\ NoDuplicateListing) =>
        /\ PositiveBikes = ListedBikes
        /\ Len(grid) = Cardinality(ListedBikes) * Cardinality(ObservedTimes)
                        + Cardinality(EmptyRows)
        /\ \A b \in ListedBikes : \A T \in ObservedTimes :
              Cardinality({i \in DOMAIN grid : grid[i].bike = b /\ grid[i].dt = T}) = 1
        /\ \A e \in EmptyRows :
              Cardinality({i \in DOMAIN grid :
                              /\ grid[i].bike = df[e].bike_numbers
                              /\ grid[i].dt = data[e].dt
                              /\ grid[i].uid = data[e].uid}) = 1

C5_Witness ==
    /\ pc = "rentals"
    /\ NoDuplicateListing
    /\ EmptyRows # {}
    /\ ListedBikes # {}
    /\ ObservedTimes # WindowTimes
    /\ \E i \in DOMAIN grid : grid[i].bike > 0 /\ grid[i].uid = -1

\* ------------------------------------------------------------------ C6
\* C6: every row with an empty bike list gets one identifier, strictly
\* negative at every row position, that is no bike of the padding set, marks
\* exactly one grid row, and is shared with no other row.
C6_VirtualIdsNegativeDistinct ==
    pc = "rentals" =>
        \A e \in EmptyRows :
            /\ df[e].bike_numbers < 0
            /\ df[e].bike_numbers \notin PositiveBikes
            /\ Cardinality({i \in DOMAIN grid : grid[i].bike = df[e].bike_numbers}) = 1
            /\ \A f \in EmptyRows : f # e => df[f].bike_numbers # df[e].bike_numbers

\* ------------------------------------------------------------------ C7
\* The snapshots of an archive that fail in extract_json or process_json.
FailsInStage(member) == member.content \in {"no_places_db", "no_region"}

StageOf(member) ==
    IF member.content = "no_places_db" THEN "extract_json" ELSE "process_json"

\* The archive can be read, and so can every snapshot in it.
Readable(archive) ==
    /\ archive.readable
    /\ \A m \in DOMAIN archive.members : archive.members[m].content # "not_utf8"

\* The ended process_zip call of archive f logged one entry per failed
\* snapshot, with its stage, and returned the rows of the others.
LogsAndKeeps(f) ==
    LET members == files[f].members
        failed  == SelectSeq(members, FailsInStage)
        passed  == SelectSeq(members, LAMBDA m : m.content = "places")
        res     == tasks[f].result
    IN  /\ res.raised = ""
        /\ Len(res.log) = Len(failed)
        /\ \A i \in DOMAIN failed :
              res.log[i][1] = failed[i].fname /\ res.log[i][2] = StageOf(failed[i])
        /\ Len(res.data.rows) = Len(passed) * Len(StationOrder)
        /\ \A m \in DOMAIN passed : \A s \in DOMAIN StationOrder :
              \E i \in DOMAIN res.data.rows :
                  /\ res.data.rows[i].src = passed[m].fname
                  /\ res.data.rows[i].uid = StationOrder[s]

\* C7: whatever subset of the snapshots of a readable archive fails in
\* extract_json or process_json, none to all of them, process_zip does not
\* raise, logs one entry per failed snapshot naming its stage, and returns
\* exactly the rows of the snapshots that succeeded.
C7_ProcessZipLogsFailures ==
    \A f \in DOMAIN tasks :
        (tasks[f].state \in {"returned", "raised"} /\ Readable(files[f]))
            => LogsAndKeeps(f)

\* ------------------------------------------------------------------ C8
\* Some archive of the month, or some snapshot in one, cannot be read.
HasReadFailure == \E f \in DOMAIN files : ~Readable(files[f])

\* Every archive without a read failure holds a snapshot that succeeds.
NoEmptyResult ==
    \A f \in DOMAIN files :
        Readable(files[f]) =>
            \E m \in DOMAIN files[f].members : files[f].members[m].content = "places"

\* The rows of snapshot m of archive f are in the data table of run r.
RowsReach(f, m, r) ==
    \A s \in DOMAIN StationOrder :
        \E i \in DOMAIN outputs[r].data_df.rows :
            /\ outputs[r].data_df.rows[i].src = files[f].members[m].fname
            /\ outputs[r].data_df.rows[i].uid = StationOrder[s]

\* C8: when an archive or a snapshot cannot be read, the rows of every
\* snapshot that succeeds, in a sibling archive or beside the unreadable
\* snapshot, are in the data table of every run of process_month that has
\* ended.
C8_ReadFailureIsolated ==
    (HasReadFailure /\ NoEmptyResult) =>
        \A r \in DOMAIN outputs :
            \A f \in DOMAIN files :
                files[f].readable =>
                    \A m \in DOMAIN files[f].members :
                        files[f].members[m].content = "places" => RowsReach(f, m, r)

\* ------------------------------------------------------------------ C9
\* C9: any two runs of process_month on the same archives that both wrote
\* their tables wrote identical tables: same rows, same row order, same
\* column order.
C9_RunsIdentical ==
    \A r1 \in DOMAIN outputs : \A r2 \in DOMAIN outputs :
        (outputs[r1].raised = "" /\ outputs[r2].raised = "")
            => /\ outputs[r1].data_df.rows = outputs[r2].data_df.rows
               /\ outputs[r1].data_df.columns = outputs[r2].data_df.columns
               /\ outputs[r1].processing_log = outputs[r2].processing_log

\* ------------------------------------------------------------------ C10
\* C10: a call of get_hourly_available_bikes that recomputes returns, and
\* returns one row per (station, hour) of the window with the first
\* bike_racks and the rounded mean of bikes.
C10_RecomputeReturnsAggregate ==
    (pc = "available" /\ avail.recomputed) =>
        /\ avail.raised = ""
        /\ avail.value = HourlyAvailable(Frame(data_dir[1][1], data_dir[1][2]))

\* ------------------------------------------------------------------ C11
\* The table prepare_hourly_rentals and pd.concat give for the files a
\* call found.
Recomputed(dir) ==
    ConcatRentals([f \in DOMAIN dir |->
        prepare_hourly_rentals(Frame(dir[f][1], dir[f][2]), "1.1").value])

\* The call that ended last was served from the pickle file.
ServedFromCache == rentals.called /\ ~rentals.recompute /\ rentals.before.exists

\* The call that ended last had to recompute.
HadToRecompute ==
    rentals.called /\ (rentals.recompute \/ ~rentals.before.exists)

\* C11: a call with recompute=False that finds the pickle file returns the
\* pickled table, recomputes nothing and leaves the file as it was; a call
\* with recompute=True, or one that finds no pickle file, returns the table
\* recomputed from the files then in DATA_DIR and leaves that table in the
\* pickle file; a call with recompute=False right after such a call
\* returns an equal table.
C11_CacheContract ==
    /\ ServedFromCache =>
          /\ rentals.raised = ""
          /\ ~rentals.recomputed
          /\ rentals.value = rentals.before.table
          /\ rentals_pkl = rentals.before
    /\ HadToRecompute =>
          /\ rentals.raised = ""
          /\ rentals.recomputed
          /\ rentals.value = Recomputed(rentals.dir)
          /\ rentals_pkl = [exists |-> TRUE, table |-> rentals.value]
    /\ (rentals.follows /\ ~rentals.recompute) =>
          /\ rentals.raised = ""
          /\ rentals.value = rentals.prior

====
